---------------------------- MODULE Spec2Model ----------------------------
(***************************************************************************)
(* A model of fontsearch.py: the support checkers is_supporting_ttf and    *)
(* is_supporting_t1, the identity extractors get_ttf_family and            *)
(* get_t1_family, the generator get_supporting_fonts and the command main. *)
(*                                                                         *)
(* Text is modelled as a sequence of code points (naturals), so that       *)
(* ord(), hexadecimal parsing, splitting and sorting are computed and not  *)
(* assumed.  The empty string is the empty sequence.                       *)
(***************************************************************************)
EXTENDS Integers, Sequences, FiniteSets, TLC

VARIABLES
    pc,               \* position of the running function / generator
    args,             \* arguments of the pure function under call
    ret,              \* its return value
    files,            \* what os.walk enumerates: <<dirpath, filename, content>>
    code_point,       \* ord(character)
    fine,             \* option -f/-c
    separator,        \* option -s
    null,             \* option -z/-n
    idx,              \* index of the file the generator is at
    member,           \* index of the collection member the generator is at
    font,             \* local `font` of get_supporting_fonts
    font_collection,  \* local `font_collection` of get_supporting_fonts
    supporting,       \* local `supporting` of get_supporting_fonts
    yielded,          \* identities yielded so far, in order
    stderr,           \* diagnostics printed so far, in order
    stdout,           \* what main printed, in order
    log               \* decode / check / yield events, in order

vars == <<pc, args, ret, files, code_point, fine, separator, null, idx, member,
          font, font_collection, supporting, yielded, stderr, stdout, log>>

genvars == <<files, code_point, fine, separator, null, idx, member, font,
             font_collection, supporting, yielded, stderr, stdout, log>>

-----------------------------------------------------------------------------
(* Bounds of the model.                                                    *)

MaxStemLen == 3
MaxTables == 2
MaxGlyphs == 2
MaxNames == 4
MaxFiles == 2

-----------------------------------------------------------------------------
(* Python values and text helpers.                                         *)

\* Python's True, False and None, as returned by the support checkers.
True == "True"
False == "False"
None == "None"

\* A local of get_supporting_fonts that no assignment has bound yet.
Unbound == [kind |-> "unbound"]

EMPTY == <<>>

HYPHEN == 45
DOT == 46
SLASH == 47

Seqs(S, n) == UNION {[1..k -> S] : k \in 0..n}

Range(s) == {s[k] : k \in DOMAIN s}

\* str.rfind, 1-based: the index of the last occurrence of c in s, 0 if none.
rfind(s, c) ==
    IF \E k \in DOMAIN s : s[k] = c
    THEN CHOOSE k \in DOMAIN s : s[k] = c /\ \A j \in DOMAIN s : j > k => s[j] # c
    ELSE 0

\* os.path.basename: what follows the last slash.
basename(p) == SubSeq(p, rfind(p, SLASH) + 1, Len(p))

\* os.path.splitext: the extension starts at the last dot of the last path
\* component, unless only dots precede it in that component.
splitext(p) ==
    LET sepIndex == rfind(p, SLASH)
        dotIndex == rfind(p, DOT)
    IN  IF dotIndex > sepIndex
           /\ \E k \in (sepIndex + 1)..(dotIndex - 1) : p[k] # DOT
        THEN <<SubSeq(p, 1, dotIndex - 1), SubSeq(p, dotIndex, Len(p))>>
        ELSE <<p, EMPTY>>

\* os.path.join of two components.
join(a, b) ==
    IF Len(b) > 0 /\ b[1] = SLASH THEN b
    ELSE IF Len(a) = 0 \/ a[Len(a)] = SLASH THEN a \o b
    ELSE a \o <<SLASH>> \o b

\* str.split(sep, 1): split at the first occurrence (the mutant of rsplit).
split_first(s, sep) ==
    IF \E k \in DOMAIN s : s[k] = sep
    THEN LET k == CHOOSE k \in DOMAIN s :
                      s[k] = sep /\ \A j \in DOMAIN s : j < k => s[j] # sep
         IN  <<SubSeq(s, 1, k - 1), SubSeq(s, k + 1, Len(s))>>
    ELSE <<s>>

\* str.rsplit(sep, 1): split at the last occurrence of sep, if any.
rsplit(s, sep) ==
    LET k == rfind(s, sep)
    IN  IF k = 0 THEN <<s>>
        ELSE <<SubSeq(s, 1, k - 1), SubSeq(s, k + 1, Len(s))>>

\* File extensions the dispatcher names.
EXT_TTF == <<46, 116, 116, 102>>           \* ".ttf"
EXT_OTF == <<46, 111, 116, 102>>           \* ".otf"
EXT_WOFF2 == <<46, 119, 111, 102, 102, 50>>  \* ".woff2"
EXT_TTC == <<46, 116, 116, 99>>            \* ".ttc"
EXT_T1 == <<46, 116, 49>>                  \* ".t1"
EXT_GZ == <<46, 103, 122>>                 \* ".gz"
EXT_PFA == <<46, 112, 102, 97>>            \* ".pfa"
EXT_PFB == <<46, 112, 102, 98>>            \* ".pfb"
EXT_GSF == <<46, 103, 115, 102>>           \* ".gsf"
EXT_PCF == <<46, 112, 99, 102>>            \* ".pcf"

UNREADABLE_FILE_TYPES == {EXT_PFA, EXT_PFB, EXT_GSF, EXT_PCF}

\* The generator and main are idle while a pure function is checked alone.
GenIdle ==
    /\ files = <<>>
    /\ code_point = 0
    /\ fine = TRUE
    /\ separator = EMPTY
    /\ null = FALSE
    /\ idx = 0
    /\ member = 0
    /\ font = Unbound
    /\ font_collection = Unbound
    /\ supporting = None
    /\ yielded = <<>>
    /\ stderr = <<>>
    /\ stdout = <<>>
    /\ log = <<>>

-----------------------------------------------------------------------------
(* get_t1_family                                                           *)

get_t1_family(file_path) ==
    LET name == rsplit(splitext(basename(file_path))[1], HYPHEN)
    IN  IF Len(name) = 2 THEN name ELSE <<name[1], EMPTY>>

NotoSans == <<78, 111, 116, 111, 83, 97, 110, 115>>
Bold == <<66, 111, 108, 100>>
NotoSansBold_t1 == NotoSans \o <<HYPHEN>> \o Bold \o EXT_T1
NotoSans_t1 == NotoSans \o EXT_T1

\* Characters of the enumerated path stems: "N", "-", ".", "/".
StemAlphabet == {78, HYPHEN, DOT, SLASH}

T1Paths ==
    {stem \o EXT_T1 : stem \in Seqs(StemAlphabet, MaxStemLen)}
        \cup {NotoSansBold_t1, NotoSans_t1}

InitT1Family ==
    /\ pc = "call"
    /\ args \in T1Paths
    /\ ret = None
    /\ GenIdle

call_get_t1_family ==
    /\ pc = "call"
    /\ ret' = get_t1_family(args)
    /\ pc' = "return"
    /\ UNCHANGED <<args, genvars>>

NextT1Family == call_get_t1_family

SpecT1Family == InitT1Family /\ [][NextT1Family]_vars

\* The file name of a path and its name without the three characters ".t1",
\* stated without the library functions.
FileNameOf(p) ==
    IF \E k \in DOMAIN p : p[k] = SLASH
    THEN LET k == CHOOSE k \in DOMAIN p :
                      p[k] = SLASH /\ \A j \in (k + 1)..Len(p) : p[j] # SLASH
         IN  [j \in 1..(Len(p) - k) |-> p[k + j]]
    ELSE p

StemOf(p) == LET f == FileNameOf(p) IN [j \in 1..(Len(f) - 3) |-> f[j]]

\* A path the dispatcher hands to get_t1_family (line 145).
IsType1Path(p) == splitext(basename(p))[2] = EXT_T1

\* C6: for a Type-1 file path, the identity is the base name without its
\* extension split at its LAST hyphen: (left, right) if there is a hyphen,
\* (whole name, '') if there is none; 'NotoSans-Bold.t1' gives
\* ('NotoSans', 'Bold') and 'NotoSans.t1' gives ('NotoSans', '').
C6_T1FamilyLastHyphen ==
    (pc = "return" /\ IsType1Path(args)) =>
        LET stem == StemOf(args)
        IN  /\ (\A k \in DOMAIN stem : stem[k] # HYPHEN) => ret = <<stem, EMPTY>>
            /\ \A k \in DOMAIN stem :
                   (stem[k] = HYPHEN /\ \A j \in (k + 1)..Len(stem) : stem[j] # HYPHEN)
                       => ret = <<SubSeq(stem, 1, k - 1), SubSeq(stem, k + 1, Len(stem))>>
            /\ args = NotoSansBold_t1 => ret = <<NotoSans, Bold>>
            /\ args = NotoSans_t1 => ret = <<NotoSans, EMPTY>>

\* A Type-1 path below a directory whose name holds two hyphens has been
\* split at the last of them.
C6_Witness ==
    /\ pc = "return"
    /\ IsType1Path(args)
    /\ \E k \in DOMAIN args : args[k] = SLASH
    /\ Len(ret[1]) > 0
    /\ HYPHEN \in Range(ret[1])
    /\ ret[2] = EMPTY

-----------------------------------------------------------------------------
(* is_supporting_ttf                                                       *)

\* any(table.isUnicode() and character in table.cmap for table in tables),
\* from table k on.
RECURSIVE any_unicode_table(_, _, _)
any_unicode_table(tables, character, k) ==
    IF k > Len(tables) THEN False
    ELSE IF tables[k].isUnicode /\ character \in DOMAIN tables[k].cmap THEN True
    ELSE any_unicode_table(tables, character, k + 1)

\* The same scan without the isUnicode() test (a mutant).
RECURSIVE any_table(_, _, _)
any_table(tables, character, k) ==
    IF k > Len(tables) THEN False
    ELSE IF character \in DOMAIN tables[k].cmap THEN True
    ELSE any_table(tables, character, k + 1)

is_supporting_ttf_any_table(ttfont, character) ==
    any_table(ttfont.cmap.tables, character, 1)

is_supporting_ttf(ttfont, character) ==
    any_unicode_table(ttfont.cmap.tables, character, 1)

\* The code points looked up and mapped: "A", "B".
CmapCodePoints == {65, 66}

\* A cmap subtable: a Unicode flag and a dict from code points to glyph names.
CmapTables ==
    {[isUnicode |-> u, cmap |-> [c \in keys |-> "glyph"]] :
        u \in BOOLEAN, keys \in SUBSET CmapCodePoints}

TTFontOf(tables, names) ==
    [kind |-> "TTFont", cmap |-> [tables |-> tables], name |-> [names |-> names]]

InitTtf ==
    /\ pc = "call"
    /\ args \in {[font |-> TTFontOf(tables, <<>>), character |-> c] :
                    tables \in Seqs(CmapTables, MaxTables), c \in CmapCodePoints}
    /\ ret = None
    /\ GenIdle

call_is_supporting_ttf ==
    /\ pc = "call"
    /\ ret' = is_supporting_ttf(args.font, args.character)
    /\ pc' = "return"
    /\ UNCHANGED <<args, genvars>>

NextTtf == call_is_supporting_ttf

SpecTtf == InitTtf /\ [][NextTtf]_vars

UnicodeTablesOf(ttfont) ==
    SelectSeq(ttfont.cmap.tables, LAMBDA t : t.isUnicode)

\* C1: is_supporting_ttf is true iff the code point is a key of some
\* Unicode-flagged subtable; dropping the subtables not flagged Unicode
\* does not change the result, and with no Unicode-flagged subtable the
\* result is false (never None).
C1_TtfSupportIffUnicodeKey ==
    pc = "return" =>
        LET tables == args.font.cmap.tables
        IN  /\ ret \in {True, False}
            /\ ret = True <=>
                   \E k \in DOMAIN tables :
                       tables[k].isUnicode /\ args.character \in DOMAIN tables[k].cmap
            /\ ret = is_supporting_ttf(
                         TTFontOf(UnicodeTablesOf(args.font), <<>>), args.character)
            /\ UnicodeTablesOf(args.font) = <<>> => ret = False

\* A font whose only subtable holding the code point is not flagged Unicode
\* was checked: the answer is false.
C1_Witness ==
    /\ pc = "return"
    /\ \E k \in DOMAIN args.font.cmap.tables :
           /\ ~args.font.cmap.tables[k].isUnicode
           /\ args.character \in DOMAIN args.font.cmap.tables[k].cmap
    /\ \E k \in DOMAIN args.font.cmap.tables : args.font.cmap.tables[k].isUnicode
    /\ ret = False

-----------------------------------------------------------------------------
(* is_supporting_t1                                                        *)

UNI == <<117, 110, 105>>   \* "uni"

\* [0-9A-F]
UpperHexDigits == (48..57) \cup (65..70)

\* re.fullmatch(r'uni[0-9A-F]+', key)
fullmatch_uni_hex(key) ==
    /\ Len(key) >= 4
    /\ SubSeq(key, 1, 3) = UNI
    /\ \A k \in 4..Len(key) : key[k] \in UpperHexDigits

\* The value int() gives one hexadecimal digit.
hex_digit(c) ==
    IF c \in 48..57 THEN c - 48
    ELSE IF c \in 65..70 THEN c - 55
    ELSE c - 87

\* int(s, 16)
RECURSIVE int16(_)
int16(s) ==
    IF s = <<>> THEN 0
    ELSE int16(SubSeq(s, 1, Len(s) - 1)) * 16 + hex_digit(s[Len(s)])

\* The test of one glyph name (lines 70-72).
glyph_key_matches(key, character) ==
    \/ (Len(key) = 1 /\ character = key[1])
    \/ (fullmatch_uni_hex(key) /\ character = int16(SubSeq(key, 4, Len(key))))

\* The for loop of is_supporting_t1, from key k on.
RECURSIVE t1_scan(_, _, _)
t1_scan(keys, character, k) ==
    IF k > Len(keys) THEN None
    ELSE IF glyph_key_matches(keys[k], character) THEN True
    ELSE t1_scan(keys, character, k + 1)

\* The loop returning False when no key matches (a mutant).
RECURSIVE t1_scan_false(_, _, _)
t1_scan_false(keys, character, k) ==
    IF k > Len(keys) THEN False
    ELSE IF glyph_key_matches(keys[k], character) THEN True
    ELSE t1_scan_false(keys, character, k + 1)

is_supporting_t1_false(t1font, character) ==
    t1_scan_false(t1font.glyphs, character, 1)

is_supporting_t1(t1font, character) == t1_scan(t1font.glyphs, character, 1)

T1FontOf(glyphs) == [kind |-> "T1Font", glyphs |-> glyphs]

\* Glyph names of the enumerated glyph sets.
GlyphNames ==
    { <<65>>,                               \* "A"
      <<66>>,                               \* "B"
      <<65, 66>>,                           \* "AB"
      UNI \o <<48, 48, 52, 49>>,            \* "uni0041"
      UNI \o <<52, 50>>,                    \* "uni42"
      UNI \o <<48, 48, 52, 65>>,            \* "uni004A"
      UNI \o <<48, 48, 52, 97>>,            \* "uni004a"
      UNI,                                  \* "uni"
      <<120>> \o UNI \o <<48, 48, 52, 49>>, \* "xuni0041"
      UNI \o <<48, 48, 52, 49, 46>> }       \* "uni0041."

\* The code points looked up: "A", "B", "J".
T1CodePoints == {65, 66, 74}

\* The keys of a glyph set are distinct.
GlyphKeySeqs ==
    {s \in Seqs(GlyphNames, MaxGlyphs) :
        \A i, j \in DOMAIN s : i # j => s[i] # s[j]}

InitT1 ==
    /\ pc = "call"
    /\ args \in {[font |-> T1FontOf(g), character |-> c] :
                    g \in GlyphKeySeqs, c \in T1CodePoints}
    /\ ret = None
    /\ GenIdle

call_is_supporting_t1 ==
    /\ pc = "call"
    /\ ret' = is_supporting_t1(args.font, args.character)
    /\ pc' = "return"
    /\ UNCHANGED <<args, genvars>>

NextT1 == call_is_supporting_t1

SpecT1 == InitT1 /\ [][NextT1]_vars

RECURSIVE Pow16(_)
Pow16(n) == IF n = 0 THEN 1 ELSE 16 * Pow16(n - 1)

RECURSIVE PositionalSum(_, _)
PositionalSum(digits, k) ==
    IF k > Len(digits) THEN 0
    ELSE (IF digits[k] <= 57 THEN digits[k] - 48 ELSE digits[k] - 55)
             * Pow16(Len(digits) - k)
         + PositionalSum(digits, k + 1)

\* Rule (a): a name of exactly one character, whose ordinal is p.
RuleSingleChar(name, p) == name = <<p>>

\* Rule (b): "uni", then one or more uppercase hexadecimal digits of value p.
RuleUniHex(name, p) ==
    \E n \in 1..(Len(name) - 3) :
        LET digits == [k \in 1..n |-> name[3 + k]]
        IN  /\ name = UNI \o digits
            /\ \A k \in 1..n : digits[k] \in UpperHexDigits
            /\ PositionalSum(digits, 1) = p

\* C2: is_supporting_t1 returns True iff some glyph name is one character
\* with ordinal P, or is 'uni' followed by uppercase hexadecimal digits of
\* value P; otherwise it returns None; it never returns False.
C2_T1SupportedOrUndetermined ==
    pc = "return" =>
        LET G == Range(args.font.glyphs)
            hit == \E name \in G :
                       RuleSingleChar(name, args.character)
                           \/ RuleUniHex(name, args.character)
        IN  /\ ret # False
            /\ hit => ret = True
            /\ ~hit => ret = None

\* "B" was found supported through the name "uni42" alone, in a glyph set
\* that also holds a name with a lowercase hexadecimal digit.
C2_Witness ==
    /\ pc = "return"
    /\ ret = True
    /\ args.character = 66
    /\ <<66>> \notin Range(args.font.glyphs)
    /\ UNI \o <<48, 48, 52, 97>> \in Range(args.font.glyphs)

-----------------------------------------------------------------------------
(* get_ttf_family                                                          *)

\* NameRecord.getEncoding(): Unicode (0) and Windows (3) platform records
\* are UTF-16BE, Macintosh (1) records are Mac Roman.
getEncoding(name) ==
    IF name.platformID \in {0, 3} THEN "utf_16_be" ELSE "mac_roman"

\* bytes.decode(encoding), on well-formed ASCII-range data: UTF-16BE joins
\* two bytes into one code unit, Mac Roman maps each byte to itself.
decode(bytes, encoding) ==
    IF encoding = "utf_16_be"
    THEN [k \in 1..(Len(bytes) \div 2) |-> bytes[2 * k - 1] * 256 + bytes[2 * k]]
    ELSE bytes

\* The for loop of get_ttf_family from record k on, with the locals family
\* and subfamily.
RECURSIVE ttf_family_scan(_, _, _, _)
ttf_family_scan(names, k, family, subfamily) ==
    IF k > Len(names) THEN <<family, subfamily>>
    ELSE LET name == names[k]
         IN  IF name.nameID = 1
             THEN IF family = EMPTY
                  THEN ttf_family_scan(names, k + 1,
                                       decode(name.string, getEncoding(name)),
                                       subfamily)
                  ELSE <<family, subfamily>>
             ELSE IF name.nameID = 2 /\ family # EMPTY
             THEN <<family, decode(name.string, getEncoding(name))>>
             ELSE ttf_family_scan(names, k + 1, family, subfamily)

get_ttf_family(ttfont) == ttf_family_scan(ttfont.name.names, 1, EMPTY, EMPTY)

\* str.encode('utf_16_be') of ASCII-range text, to write the sample records.
utf_16_be(s) ==
    [k \in 1..(2 * Len(s)) |-> IF k % 2 = 1 THEN 0 ELSE s[k \div 2]]

Sans == <<83, 97, 110, 115>>
Serif == <<83, 101, 114, 105, 102>>
Italic == <<73, 116, 97, 108, 105, 99>>

NameRecordOf(nameID, platformID, string) ==
    [nameID |-> nameID, platformID |-> platformID, string |-> string]

\* The name records fonts are built from.
NameRecords ==
    { NameRecordOf(1, 1, Sans),
      NameRecordOf(2, 1, Bold),
      NameRecordOf(1, 3, utf_16_be(Serif)),
      NameRecordOf(2, 3, utf_16_be(Italic)),
      NameRecordOf(1, 1, EMPTY),
      NameRecordOf(4, 3, utf_16_be(NotoSans)) }

SansBoldSerifItalic ==
    << NameRecordOf(1, 1, Sans), NameRecordOf(2, 1, Bold),
       NameRecordOf(1, 3, utf_16_be(Serif)), NameRecordOf(2, 3, utf_16_be(Italic)) >>

InitTtfFamily ==
    /\ pc = "call"
    /\ args \in {TTFontOf(<<>>, names) :
                    names \in Seqs(NameRecords, MaxNames) \cup {SansBoldSerifItalic}}
    /\ ret = None
    /\ GenIdle

call_get_ttf_family ==
    /\ pc = "call"
    /\ ret' = get_ttf_family(args)
    /\ pc' = "return"
    /\ UNCHANGED <<args, genvars>>

NextTtfFamily == call_get_ttf_family

SpecTtfFamily == InitTtfFamily /\ [][NextTtfFamily]_vars

DecodedString(name) == decode(name.string, getEncoding(name))

Least(S) == CHOOSE k \in S : \A j \in S : k <= j

\* What the claim gives for a list of name records.
FirstFamilyFirstSubfamily(names) ==
    LET F == {k \in DOMAIN names : names[k].nameID = 1}
    IN  IF F = {} THEN <<EMPTY, EMPTY>>
        ELSE LET f == Least(F)
                 later == {k \in F : k > f}
                 stop == IF later = {} THEN Len(names) + 1 ELSE Least(later)
                 S == {k \in DOMAIN names :
                          names[k].nameID = 2 /\ f < k /\ k < stop}
             IN  << DecodedString(names[f]),
                    IF S = {} THEN EMPTY ELSE DecodedString(names[Least(S)]) >>

\* C5: get_ttf_family returns the decoded string of the first record with
\* name-identifier 1 as family ('' if there is none) and that of the first
\* record with name-identifier 2 after it and before any second record with
\* name-identifier 1 as subfamily ('' otherwise);
\* [(1,'Sans'),(2,'Bold'),(1,'Serif'),(2,'Italic')] gives ('Sans','Bold').
C5_FirstFamilyRecord ==
    pc = "return" =>
        /\ ret = FirstFamilyFirstSubfamily(args.name.names)
        /\ args.name.names = SansBoldSerifItalic => ret = <<Sans, Bold>>

-----------------------------------------------------------------------------
(* get_supporting_fonts and main                                           *)

USR_SHARE_FONTS ==
    <<47, 117, 115, 114, 47, 115, 104, 97, 114, 101, 47, 102, 111, 110, 116, 115>>
HOME_LOCAL_SHARE_FONTS ==      \* expanduser('~/.local/share/fonts')
    <<47, 104, 111, 109, 101, 47, 117, 47, 46, 108, 111, 99, 97, 108, 47,
      115, 104, 97, 114, 101, 47, 102, 111, 110, 116, 115>>
HOME_FONTS ==                  \* expanduser('~/.fonts')
    <<47, 104, 111, 109, 101, 47, 117, 47, 46, 102, 111, 110, 116, 115>>

UNABLE_TO_DETERMINE ==         \* 'Unable to determine support in '
    <<85, 110, 97, 98, 108, 101, 32, 116, 111, 32, 100, 101, 116, 101, 114,
      109, 105, 110, 101, 32, 115, 117, 112, 112, 111, 114, 116, 32, 105, 110, 32>>
SKIPPING_UNREADABLE ==         \* 'Skipping unreadable '
    <<83, 107, 105, 112, 112, 105, 110, 103, 32, 117, 110, 114, 101, 97, 100,
      97, 98, 108, 101, 32>>

\* Sample fonts.  FontSansBold maps "A" and "B"; FontSansItalic maps "B" in
\* a Unicode subtable and "A" only in a subtable that is not Unicode;
\* FontSerif maps "A" and has no subfamily record.
FontSansBold ==
    TTFontOf(<<[isUnicode |-> TRUE, cmap |-> [c \in {65, 66} |-> "glyph"]]>>,
             <<NameRecordOf(1, 1, Sans), NameRecordOf(2, 1, Bold)>>)
FontSansItalic ==
    TTFontOf(<<[isUnicode |-> FALSE, cmap |-> [c \in {65} |-> "glyph"]],
               [isUnicode |-> TRUE, cmap |-> [c \in {66} |-> "glyph"]]>>,
             <<NameRecordOf(1, 1, Sans), NameRecordOf(2, 3, utf_16_be(Italic))>>)
FontSerif ==
    TTFontOf(<<[isUnicode |-> TRUE, cmap |-> [c \in {65} |-> "glyph"]]>>,
             <<NameRecordOf(4, 3, utf_16_be(NotoSans)),
               NameRecordOf(1, 3, utf_16_be(Serif))>>)

TTCollectionOf(fonts) == [kind |-> "TTCollection", fonts |-> fonts]

\* Bytes no decoder accepts, and a file that is no font at all.
Corrupt == [kind |-> "corrupt"]
Opaque == [kind |-> "opaque"]

FileOf(dirpath, filename, content) ==
    [dirpath |-> dirpath, filename |-> filename, content |-> content]

\* The files the three directories may hold.
FileUniverse ==
    { FileOf(USR_SHARE_FONTS, <<97>> \o EXT_TTF, FontSansBold),         \* a.ttf
      FileOf(USR_SHARE_FONTS, <<98>> \o EXT_OTF, FontSansItalic),       \* b.otf
      FileOf(HOME_LOCAL_SHARE_FONTS, <<99>> \o EXT_WOFF2, FontSerif),   \* c.woff2
      FileOf(USR_SHARE_FONTS, <<100>> \o EXT_TTC,                       \* d.ttc
             TTCollectionOf(<<FontSansBold, FontSansItalic, FontSansBold>>)),
      FileOf(USR_SHARE_FONTS, <<120>> \o EXT_TTF, Corrupt),             \* x.ttf
      FileOf(HOME_FONTS, <<121>> \o EXT_TTC, Corrupt),                  \* y.ttc
      FileOf(HOME_FONTS, <<78, 45, 66>> \o EXT_T1,                      \* N-B.t1
             T1FontOf(<<UNI, UNI \o <<52, 50>>>>)),                     \* uni, uni42
      FileOf(USR_SHARE_FONTS, <<122>> \o EXT_T1, Corrupt),              \* z.t1
      FileOf(USR_SHARE_FONTS, <<101>> \o EXT_PFA, Opaque),              \* e.pfa
      FileOf(USR_SHARE_FONTS, <<101>> \o EXT_PFB, Opaque),              \* e.pfb
      FileOf(USR_SHARE_FONTS, <<101>> \o EXT_PCF, Opaque),              \* e.pcf
      FileOf(USR_SHARE_FONTS, <<101>> \o EXT_GSF \o EXT_GZ, Opaque),    \* e.gsf.gz
      FileOf(USR_SHARE_FONTS, <<101>> \o EXT_TTF \o EXT_GZ, Opaque),    \* e.ttf.gz
      FileOf(HOME_FONTS, <<82, 69, 65, 68, 77, 69>>, Opaque),           \* README
      FileOf(HOME_FONTS, EXT_PCF, Opaque) }                             \* .pcf

\* os.walk lists every path once, in an order the file system decides.
Enumerations ==
    {s \in Seqs(FileUniverse, MaxFiles) :
        \A i, j \in DOMAIN s : i # j => s[i] # s[j]}

\* The arguments main may be given.
Characters == {<<65>>, <<66>>}      \* "A", "B"
Separators == {<<9>>, <<58>>}       \* TAB (the default), ":"

ord(character) == character[1]

Event(ev, file, m, val) == [ev |-> ev, file |-> file, member |-> m, val |-> val]

Init ==
    /\ pc = "main"
    /\ args = None
    /\ ret = None
    /\ files \in Enumerations
    /\ code_point = 0
    /\ fine = TRUE
    /\ separator = EMPTY
    /\ null = FALSE
    /\ idx = 0
    /\ member = 0
    /\ font = Unbound
    /\ font_collection = Unbound
    /\ supporting = None
    /\ yielded = <<>>
    /\ stderr = <<>>
    /\ stdout = <<>>
    /\ log = <<>>

\* main is entered with its parsed arguments and creates the generator
\* (lines 172, 191-192).
main_start ==
    /\ pc = "main"
    /\ \E character \in Characters, f \in BOOLEAN, sep \in Separators, z \in BOOLEAN :
           /\ code_point' = ord(character)
           /\ fine' = f
           /\ separator' = sep
           /\ null' = z
    /\ pc' = "walk"
    /\ UNCHANGED <<args, ret, files, idx, member, font, font_collection,
                   supporting, yielded, stderr, stdout, log>>

file_path(i) == join(files[i].dirpath, files[i].filename)

file_extension(i) == splitext(files[i].filename)[2]

\* The last branch's test with the .gz case left out (a mutant).
is_unreadable_no_gz(filename) ==
    splitext(filename)[2] \in UNREADABLE_FILE_TYPES

\* The test of the last branch (lines 154-157).
is_unreadable(filename) ==
    \/ splitext(filename)[2] \in UNREADABLE_FILE_TYPES
    \/ /\ splitext(filename)[2] = EXT_GZ
       /\ splitext(splitext(filename)[1])[2] \in UNREADABLE_FILE_TYPES

\* The generator is at the head of the file loop with a file left.
AtNextFile == pc = "walk" /\ idx < Len(files)

\* A constructor raises on malformed data: the exception leaves the
\* generator, which no caller catches, and main ends with it.
Raise(i) ==
    /\ pc' = "raised"
    /\ idx' = i
    /\ log' = Append(log, Event("raise", i, 0, file_path(i)))
    /\ UNCHANGED <<args, ret, files, code_point, fine, separator, null, member,
                   font, font_collection, supporting, yielded, stderr, stdout>>

\* Lines 136-137: font = TTFont(file_path).
dispatch_ttf ==
    /\ AtNextFile
    /\ LET i == idx + 1
       IN  /\ file_extension(i) \in {EXT_TTF, EXT_OTF, EXT_WOFF2}
           /\ \/ /\ files[i].content.kind = "TTFont"
                 /\ font' = files[i].content
                 /\ idx' = i
                 /\ pc' = "ttf_check"
                 /\ log' = Append(log, Event("decode", i, 0, file_path(i)))
                 /\ UNCHANGED <<args, ret, files, code_point, fine, separator,
                                null, member, font_collection, supporting,
                                yielded, stderr, stdout>>
              \/ /\ files[i].content.kind # "TTFont"
                 /\ Raise(i)

\* yielded.append in place of a yield placed before the earlier ones (a
\* mutant).
Yield_first(identity) == yielded' = <<identity>> \o yielded

\* yield: the identity is handed to the consumer.
Yield(identity) == yielded' = Append(yielded, identity)

\* A condition that lets every value through (a mutant).
is_truthy_always(value) == TRUE

\* The truth value an `if` / `elif` tests (lines 138, 143, 152): of True,
\* False and None only True is truthy.
is_truthy(value) == value = True

\* `supporting is None` (line 148).
is_none(value) == value = None

\* Lines 138-139.
ttf_check ==
    /\ pc = "ttf_check"
    /\ LET r == is_supporting_ttf(font, code_point)
           checked == Append(log, Event("check", idx, 0, r))
       IN  IF is_truthy(r)
           THEN /\ Yield(get_ttf_family(font))
                /\ log' = Append(checked, Event("yield", idx, 0, get_ttf_family(font)))
           ELSE /\ yielded' = yielded
                /\ log' = checked
    /\ pc' = "walk"
    /\ UNCHANGED <<args, ret, files, code_point, fine, separator, null, idx,
                   member, font, font_collection, supporting, stderr, stdout>>

\* Lines 140-141: font_collection = TTCollection(file_path).
dispatch_ttc ==
    /\ AtNextFile
    /\ LET i == idx + 1
       IN  /\ file_extension(i) = EXT_TTC
           /\ \/ /\ files[i].content.kind = "TTCollection"
                 /\ font_collection' = files[i].content
                 /\ member' = 0
                 /\ idx' = i
                 /\ pc' = "ttc_loop"
                 /\ log' = Append(log, Event("decode", i, 0, file_path(i)))
                 /\ UNCHANGED <<args, ret, files, code_point, fine, separator,
                                null, font, supporting, yielded, stderr, stdout>>
              \/ /\ files[i].content.kind # "TTCollection"
                 /\ Raise(i)

\* The member the loop of line 142 binds to font at its step m, always the
\* first one (a mutant).
collection_member_first(collection, m) == collection.fonts[1]

\* The member the loop of line 142 binds to font at its step m.
collection_member(collection, m) == collection.fonts[m]

\* Lines 142-144, one member.
ttc_member ==
    /\ pc = "ttc_loop"
    /\ member < Len(font_collection.fonts)
    /\ LET m == member + 1
           f == collection_member(font_collection, m)
           r == is_supporting_ttf(f, code_point)
           checked == Append(log, Event("check", idx, m, r))
       IN  /\ member' = m
           /\ font' = f
           /\ IF is_truthy(r)
              THEN /\ Yield(get_ttf_family(f))
                   /\ log' = Append(checked, Event("yield", idx, m, get_ttf_family(f)))
              ELSE /\ yielded' = yielded
                   /\ log' = checked
    /\ UNCHANGED <<pc, args, ret, files, code_point, fine, separator, null, idx,
                   font_collection, supporting, stderr, stdout>>

\* Line 142, the loop over the members ends.
ttc_end ==
    /\ pc = "ttc_loop"
    /\ member = Len(font_collection.fonts)
    /\ pc' = "walk"
    /\ UNCHANGED <<args, ret, genvars>>

\* Lines 145-146: font = T1Font(file_path).
dispatch_t1 ==
    /\ AtNextFile
    /\ LET i == idx + 1
       IN  /\ file_extension(i) = EXT_T1
           /\ \/ /\ files[i].content.kind = "T1Font"
                 /\ font' = files[i].content
                 /\ idx' = i
                 /\ pc' = "t1_check"
                 /\ log' = Append(log, Event("decode", i, 0, file_path(i)))
                 /\ UNCHANGED <<args, ret, files, code_point, fine, separator,
                                null, member, font_collection, supporting,
                                yielded, stderr, stdout>>
              \/ /\ files[i].content.kind # "T1Font"
                 /\ Raise(i)

\* Lines 147-153.
t1_check ==
    /\ pc = "t1_check"
    /\ LET r == is_supporting_t1(font, code_point)
           checked == Append(log, Event("check", idx, 0, r))
       IN  /\ supporting' = r
           /\ IF is_none(r)
              THEN /\ stderr' = Append(stderr, UNABLE_TO_DETERMINE \o file_path(idx))
                   /\ log' = Append(checked, Event("diag", idx, 0, file_path(idx)))
                   /\ yielded' = yielded
              ELSE IF is_truthy(r)
              THEN /\ Yield(get_t1_family(file_path(idx)))
                   /\ log' = Append(checked,
                                    Event("yield", idx, 0,
                                          get_t1_family(file_path(idx))))
                   /\ stderr' = stderr
              ELSE /\ log' = checked
                   /\ UNCHANGED <<yielded, stderr>>
    /\ pc' = "walk"
    /\ UNCHANGED <<args, ret, files, code_point, fine, separator, null, idx,
                   member, font, font_collection, stdout>>

RecognisedExtensions == {EXT_TTF, EXT_OTF, EXT_WOFF2, EXT_TTC, EXT_T1}

\* Lines 154-159.
dispatch_unreadable ==
    /\ AtNextFile
    /\ LET i == idx + 1
       IN  /\ file_extension(i) \notin RecognisedExtensions
           /\ is_unreadable(files[i].filename)
           /\ idx' = i
           /\ stderr' = Append(stderr, SKIPPING_UNREADABLE \o file_path(i))
           /\ log' = Append(log, Event("diag", i, 0, file_path(i)))
    /\ UNCHANGED <<pc, args, ret, files, code_point, fine, separator, null,
                   member, font, font_collection, supporting, yielded, stdout>>

\* No branch of lines 136-157 takes the file.
dispatch_other ==
    /\ AtNextFile
    /\ LET i == idx + 1
       IN  /\ file_extension(i) \notin RecognisedExtensions
           /\ ~is_unreadable(files[i].filename)
           /\ idx' = i
    /\ UNCHANGED <<pc, args, ret, files, code_point, fine, separator, null,
                   member, font, font_collection, supporting, yielded, stderr,
                   stdout, log>>

\* Python's order of str: by code point, a proper prefix first.
RECURSIVE str_less(_, _)
str_less(a, b) ==
    IF a = <<>> THEN b # <<>>
    ELSE IF b = <<>> THEN FALSE
    ELSE IF a[1] # b[1] THEN a[1] < b[1]
    ELSE str_less(Tail(a), Tail(b))

\* Python's order of tuples of two str: by the first component that differs.
tuple_less(x, y) ==
    IF x[1] # y[1] THEN str_less(x[1], y[1]) ELSE str_less(x[2], y[2])

\* sorted() of a set of (family, subfamily) tuples.
RECURSIVE sorted_tuples(_)
sorted_tuples(S) ==
    IF S = {} THEN <<>>
    ELSE LET least == CHOOSE x \in S : \A y \in S : y = x \/ tuple_less(x, y)
         IN  <<least>> \o sorted_tuples(S \ {least})

\* sorted() of a set of str.
RECURSIVE sorted_strs(_)
sorted_strs(S) ==
    IF S = {} THEN <<>>
    ELSE LET least == CHOOSE x \in S : \A y \in S : y = x \/ str_less(x, y)
         IN  <<least>> \o sorted_strs(S \ {least})

\* sorted(set(font[0] for font in fonts)), line 197.
coarse_items(fonts) == sorted_strs({f[1] : f \in Range(fonts)})

\* The pairs of the generator in the order yielded, duplicates kept (a
\* mutant).
fine_items_as_yielded(fonts) == fonts

\* sorted(set(fonts)), line 194.
fine_items(fonts) == sorted_tuples(Range(fonts))

\* end, line 191.
end_of(z) == IF z THEN <<0>> ELSE <<10>>

\* Lines 191-198, once the generator is exhausted: set() has drawn every
\* identity before anything is printed.
main_print ==
    /\ pc = "walk"
    /\ idx = Len(files)
    /\ stdout' = IF fine
                 THEN LET items == fine_items(yielded)
                      IN  [k \in DOMAIN items |->
                              items[k][1] \o separator \o items[k][2] \o end_of(null)]
                 ELSE LET items == coarse_items(yielded)
                      IN  [k \in DOMAIN items |-> items[k] \o end_of(null)]
    /\ pc' = "done"
    /\ UNCHANGED <<args, ret, files, code_point, fine, separator, null, idx,
                   member, font, font_collection, supporting, yielded, stderr, log>>

Next ==
    \/ main_start
    \/ dispatch_ttf
    \/ ttf_check
    \/ dispatch_ttc
    \/ ttc_member
    \/ ttc_end
    \/ dispatch_t1
    \/ t1_check
    \/ dispatch_unreadable
    \/ dispatch_other
    \/ main_print

Spec == Init /\ [][Next]_vars

-----------------------------------------------------------------------------
(* What the run is compared with: each file's outcome, computed from the   *)
(* file alone.                                                             *)

EventsOf(i, ev) == SelectSeq(log, LAMBDA e : e.file = i /\ e.ev = ev)

AllEventsOf(i) == SelectSeq(log, LAMBDA e : e.file = i)

Count(seq, x) == Cardinality({k \in DOMAIN seq : seq[k] = x})

\* The generator has left file i behind without an exception.
Processed(i) == i < idx \/ (i = idx /\ pc \in {"walk", "done"})

\* The answer of the support check for file content c (member m of it).
SupportOf(c, m, cp) ==
    IF c.kind = "TTFont" THEN is_supporting_ttf(c, cp)
    ELSE IF c.kind = "TTCollection" THEN is_supporting_ttf(c.fonts[m], cp)
    ELSE is_supporting_t1(c, cp)

\* The identities of the first n members of a collection that support cp.
RECURSIVE MemberIdentities(_, _, _)
MemberIdentities(fonts, n, cp) ==
    IF n = 0 THEN <<>>
    ELSE MemberIdentities(fonts, n - 1, cp)
             \o (IF is_supporting_ttf(fonts[n], cp) = True
                 THEN <<get_ttf_family(fonts[n])>> ELSE <<>>)

\* The identities file f contributes on its own.
FileIdentities(f, cp) ==
    LET ext == splitext(f.filename)[2]
    IN  IF ext \in {EXT_TTF, EXT_OTF, EXT_WOFF2} /\ f.content.kind = "TTFont"
        THEN IF is_supporting_ttf(f.content, cp) = True
             THEN <<get_ttf_family(f.content)>> ELSE <<>>
        ELSE IF ext = EXT_TTC /\ f.content.kind = "TTCollection"
        THEN MemberIdentities(f.content.fonts, Len(f.content.fonts), cp)
        ELSE IF ext = EXT_T1 /\ f.content.kind = "T1Font"
        THEN IF is_supporting_t1(f.content, cp) = True
             THEN <<get_t1_family(f.dirpath \o <<SLASH>> \o f.filename)>> ELSE <<>>
        ELSE <<>>

\* The identities of files 1..n, file after file.
RECURSIVE IdentitiesUpTo(_)
IdentitiesUpTo(n) ==
    IF n = 0 THEN <<>>
    ELSE IdentitiesUpTo(n - 1) \o FileIdentities(files[n], code_point)

\* What the file the generator is inside of has contributed so far.
CurrentFileIdentities ==
    IF pc = "ttc_loop"
    THEN MemberIdentities(files[idx].content.fonts, member, code_point)
    ELSE <<>>

\* yielded and stderr hold what the yield and diagnostic events record.
EffectsMatchLog ==
    LET Y == SelectSeq(log, LAMBDA e : e.ev = "yield")
        D == SelectSeq(log, LAMBDA e : e.ev = "diag")
    IN  /\ yielded = [k \in DOMAIN Y |-> Y[k].val]
        /\ Len(stderr) = Len(D)
        /\ \A k \in DOMAIN D :
               stderr[k] \in {UNABLE_TO_DETERMINE \o D[k].val,
                              SKIPPING_UNREADABLE \o D[k].val}

\* C3: an identity is yielded only right after the support check of that
\* font returned True; a Type-1 file whose check returned None has exactly
\* one diagnostic and no identity; a font whose check returned False has no
\* identity.
C3_YieldOnlyWhenSupported ==
    /\ EffectsMatchLog
    /\ \A k \in DOMAIN log :
           /\ log[k].ev = "check" =>
                  log[k].val = SupportOf(files[log[k].file].content,
                                         log[k].member, code_point)
           /\ log[k].ev = "yield" =>
                  /\ k > 1
                  /\ log[k - 1].ev = "check"
                  /\ log[k - 1].file = log[k].file
                  /\ log[k - 1].member = log[k].member
                  /\ log[k - 1].val = True
           /\ (log[k].ev = "check" /\ log[k].val = None) =>
                  /\ files[log[k].file].content.kind = "T1Font"
                  /\ Len(EventsOf(log[k].file, "diag")) = 1
                  /\ Len(EventsOf(log[k].file, "yield")) = 0
                  /\ Count(stderr, UNABLE_TO_DETERMINE
                                       \o files[log[k].file].dirpath \o <<SLASH>>
                                       \o files[log[k].file].filename) = 1
           /\ (log[k].ev = "check" /\ log[k].val = False) =>
                  \A j \in DOMAIN log :
                      ~(/\ log[j].ev = "yield"
                        /\ log[j].file = log[k].file
                        /\ log[j].member = log[k].member)

\* A run has ended in which a Type-1 check returned None, a font check
\* returned False and identities were yielded.
C3_Witness ==
    /\ pc = "done"
    /\ \E k \in DOMAIN log : log[k].ev = "check" /\ log[k].val = None
    /\ \E k \in DOMAIN log : log[k].ev = "check" /\ log[k].val = False
    /\ Len(yielded) = 2
    /\ Len(stderr) = 1

\* A file of a decodable format whose data the decoder rejects.
IsCorrupt(f) ==
    /\ splitext(f.filename)[2] \in RecognisedExtensions
    /\ f.content.kind = "corrupt"

\* C4: a decode failure is caught for its file only: the run is never
\* aborted, there is one diagnostic for the corrupt file, and the results of
\* all the other files, before and after it, are yielded.
C4_DecodeFailureIsolated ==
    /\ pc # "raised"
    /\ pc = "done" =>
           /\ yielded = IdentitiesUpTo(Len(files))
           /\ \A i \in DOMAIN files :
                  IsCorrupt(files[i]) => Len(EventsOf(i, "diag")) = 1

\* The supporting members of a collection, in member order.
SupportingMembers(fonts, cp) ==
    SelectSeq([m \in 1..Len(fonts) |-> m],
              LAMBDA m : is_supporting_ttf(fonts[m], cp) = True)

\* C7: every member of a collection is checked on its own, and exactly the
\* members that support the code point yield their identity, one each, in
\* member order, members of the same family not merged.
C7_CollectionMembersIndependent ==
    /\ EffectsMatchLog
    /\ \A i \in DOMAIN files :
           (Processed(i) /\ splitext(files[i].filename)[2] = EXT_TTC) =>
               LET fonts == files[i].content.fonts
                   sup == SupportingMembers(fonts, code_point)
                   Y == EventsOf(i, "yield")
                   K == EventsOf(i, "check")
               IN  /\ Len(K) = Len(fonts)
                   /\ \A m \in DOMAIN K :
                          /\ K[m].member = m
                          /\ K[m].val = is_supporting_ttf(fonts[m], code_point)
                   /\ Len(Y) = Len(sup)
                   /\ \A k \in DOMAIN Y :
                          /\ Y[k].member = sup[k]
                          /\ Y[k].val = get_ttf_family(fonts[sup[k]])

\* A collection with two supporting members of the same family and one
\* member that does not support the code point was searched: two equal
\* identities were yielded.
C7_Witness ==
    /\ pc = "done"
    /\ \E i \in DOMAIN files :
           /\ files[i].content.kind = "TTCollection"
           /\ Len(files[i].content.fonts) = 3
           /\ Len(EventsOf(i, "yield")) = 2
           /\ EventsOf(i, "yield")[1].val = EventsOf(i, "yield")[2].val
    /\ Len(yielded) = 2

\* The extension inside a .gz file name: that of the name without ".gz".
InnerExtension(filename) ==
    splitext([k \in 1..(Len(filename) - 3) |-> filename[k]])[2]

\* The classification 'unreadable' of the claim.
ClassUnreadable(filename) ==
    LET ext == splitext(filename)[2]
    IN  \/ ext \in {EXT_PFA, EXT_PFB, EXT_GSF, EXT_PCF}
        \/ (ext = EXT_GZ /\ InnerExtension(filename)
                                \in {EXT_PFA, EXT_PFB, EXT_GSF, EXT_PCF})

\* C8: an unreadable file (.pfa, .pfb, .gsf, .pcf, or .gz around one of
\* them) gets exactly one diagnostic, no identity and no decode; a file with
\* any other unrecognised extension gets nothing at all.
C8_UnreadableAndOtherFiles ==
    /\ EffectsMatchLog
    /\ \A i \in DOMAIN files :
           LET name == files[i].filename
               path == files[i].dirpath \o <<SLASH>> \o name
           IN  /\ (Processed(i) /\ ClassUnreadable(name)) =>
                      /\ Len(AllEventsOf(i)) = 1
                      /\ Len(EventsOf(i, "diag")) = 1
                      /\ Count(stderr, SKIPPING_UNREADABLE \o path) = 1
               /\ (/\ Processed(i)
                   /\ ~ClassUnreadable(name)
                   /\ splitext(name)[2] \notin RecognisedExtensions) =>
                      /\ Len(AllEventsOf(i)) = 0
                      /\ \A k \in DOMAIN stderr :
                             stderr[k] # SKIPPING_UNREADABLE \o path

\* A run over a compressed unreadable file and a file of another extension
\* has ended with one diagnostic.
C8_Witness ==
    /\ pc = "done"
    /\ Len(files) = 2
    /\ \E i \in DOMAIN files :
           splitext(files[i].filename)[2] = EXT_GZ /\ ClassUnreadable(files[i].filename)
    /\ \E i \in DOMAIN files :
           /\ ~ClassUnreadable(files[i].filename)
           /\ splitext(files[i].filename)[2] \notin RecognisedExtensions
    /\ Len(stderr) = 1
    /\ yielded = <<>>

\* C9: files are processed one after another in enumeration order: the
\* events of a file (decode, then checks, then yields) all come before the
\* decode of the next file, the yielded sequence lists the identities file
\* after file, and the font checked is the one decoded from the file at hand.
C9_FilesOneAfterAnother ==
    /\ \A j, k \in DOMAIN log :
           j < k =>
               /\ log[j].file <= log[k].file
               /\ log[j].file = log[k].file =>
                      /\ log[j].member <= log[k].member
                      /\ log[k].ev # "decode"
    /\ \A k \in DOMAIN log :
           log[k].ev \in {"check", "yield"} =>
               \E j \in 1..(k - 1) :
                   log[j].ev = "decode" /\ log[j].file = log[k].file
    /\ \A k \in DOMAIN log : log[k].file <= idx
    /\ pc \in {"ttf_check", "t1_check"} => font = files[idx].content
    /\ pc = "ttc_loop" => font_collection = files[idx].content
    /\ idx <= Len(files)
    /\ yielded = IF idx = 0 THEN <<>>
                 ELSE IF Processed(idx) THEN IdentitiesUpTo(idx)
                 ELSE IdentitiesUpTo(idx - 1) \o CurrentFileIdentities

\* A run over two font files has ended, each file having yielded one
\* identity, the two identities different.
C9_Witness ==
    /\ pc = "done"
    /\ Len(files) = 2
    /\ Len(EventsOf(1, "yield")) = 1
    /\ Len(EventsOf(2, "yield")) = 1
    /\ yielded[1] # yielded[2]
    /\ yielded = FileIdentities(files[1], code_point)
                     \o FileIdentities(files[2], code_point)

\* a sorts before b: at the first place where they differ a has the smaller
\* code point, or a ends there.
Before(a, b) ==
    \E k \in 1..(Len(a) + 1) :
        /\ \A j \in 1..(k - 1) : j <= Len(b) /\ a[j] = b[j]
        /\ k <= Len(b)
        /\ (k <= Len(a) => a[k] < b[k])

PairBefore(x, y) == Before(x[1], y[1]) \/ (x[1] = y[1] /\ Before(x[2], y[2]))

\* C10: main prints each distinct item exactly once, in ascending order: in
\* fine mode the distinct (family, subfamily) pairs, in coarse mode the
\* distinct families; nothing else is printed.
C10_PrintsDistinctSorted ==
    /\ pc # "done" => stdout = <<>>
    /\ pc = "done" =>
           LET S == Range(yielded)
               F == {x[1] : x \in S}
               end == IF null THEN <<0>> ELSE <<10>>
           IN  IF fine
               THEN /\ Len(stdout) = Cardinality(S)
                    /\ \A x \in S :
                           stdout[1 + Cardinality({y \in S : PairBefore(y, x)})]
                               = x[1] \o separator \o x[2] \o end
               ELSE /\ Len(stdout) = Cardinality(F)
                    /\ \A f \in F :
                           stdout[1 + Cardinality({g \in F : Before(g, f)})]
                               = f \o end

\* Coarse mode has printed one line for two yielded identities of the same
\* family with different subfamilies.
C10_Witness ==
    /\ pc = "done"
    /\ ~fine
    /\ Len(yielded) = 2
    /\ yielded[1][1] = yielded[2][1]
    /\ yielded[1][2] # yielded[2][2]
    /\ Len(stdout) = 1

=============================================================================
